---- MODULE Spec2Model ----
(***************************************************************************)
(* Model of the Agent class of simple-browser-agent (core/src/agent.ts):   *)
(* the start()/stop() lifecycle, the step() control loop, the walk of a    *)
(* plan's actions and the request-failure handler.                         *)
(*                                                                         *)
(* JavaScript runs every piece of code between two awaits atomically, so   *)
(* each action below is one resumption of a suspended loop (or one call of *)
(* a public method) together with all the synchronous code that follows    *)
(* it, up to the next await on real I/O (browser, completion API, timer).  *)
(* Awaits on already-settled promises (the done() callback, the return of  *)
(* step()) only take microtask turns, which no timer or I/O callback can   *)
(* interleave with, and are therefore part of the same atomic action.      *)
(***************************************************************************)
EXTENDS Integers, Sequences, FiniteSets, TLC

\* ------------------------------------------------------------------ bounds

\* start() invocations that get past the guard of line 371 (loops in flight
\* or finished) considered in one behaviour.
MaxLoops == 2

\* maxSteps (constructor argument, line 126) ranges over 0..MaxStepsBound.
MaxStepsBound == 2

\* Plans hold at most MaxPlanLen actions.
MaxPlanLen == 2

\* stop() calls made by an external caller in one behaviour.
MaxExtStops == 1

\* Argument values of a plan entry range over 1..MaxArgValue.
MaxArgValue == 3

\* browser.pages() returns at most MaxTabs tabs.
MaxTabs == 3

\* Agents constructed in one process.
MaxAgents == 3

\* ------------------------------------------------------- program constants

RateLimitDelay == 60000
DefaultDelay == 1000

Loops == 1..MaxLoops

\* ------------------------------------------------------------------- state

VARIABLES
    running,        \* Agent._running
    maxSteps,       \* Agent.maxSteps
    history,        \* Agent.history: sequence of HistoryRecord
    pc,             \* per start() invocation: where its loop is suspended
    stepCount,      \* per start() invocation: the local stepCount
    plan,           \* per loop, during a step: response.actions
    idx,            \* per loop, during a step: the local i of the plan walk
    actionResults,  \* per loop, during a step: the local actionResults
    delay,          \* per loop, in the catch handler: the local delay
    \* observation variables (not program state)
    calls,          \* per loop: the callback invocations of the current step
    broke,          \* per loop: the walk of the current step left by `break`
    errClass,       \* per loop: how the current step's request/then-chain failed
    stepsRun,       \* per loop: number of step() calls made by its start()
    stoppedSeen,    \* per loop: 'stopped' dispatches since its start() began
    completedSeen,  \* per loop: 'completed' dispatches since its start() began
    cancelled,      \* per loop: running became false during a step of it, by
                    \* its 'done' or while a callback of it was in flight
    tokenLimitSeen, \* a completion request failed with token_limit_exceeded
    requestsSinceToken, \* completion requests issued after that
    stopsSinceToken,    \* stop() executions after that
    extStops,       \* stop() calls made by external callers
    lastCall,       \* "start" when the last thing that ran was a start() call
    invocation,     \* argument binding on its own: the last callback call
    sent,           \* the history block of the messages last composed for a
                    \* completion request
    browser,        \* page resolution on its own: the tabs, the operation
                    \* last performed on them and what it yielded
    registration    \* registration on its own: Agent.pendingActions, the
                    \* actions map of each Agent constructed so far, and the
                    \* last this.actions.get(name)

vars == << running, maxSteps, history, pc, stepCount, plan, idx, actionResults,
           delay, calls, broke, errClass, stepsRun, stoppedSeen, completedSeen,
           cancelled, tokenLimitSeen, requestsSinceToken, stopsSinceToken,
           extStops, lastCall, invocation, sent, browser, registration >>

\* ------------------------------------------------------- the action registry

\* Agent.actions after construction: every @Agent.DefineAction method, with
\* the parameter names getParamNames() reads off the method (declared order).
actions ==
    [ openNewTab   |-> << >>,
      goToUrl      |-> << "url" >>,
      goToDataUrl  |-> << "content", "contentType" >>,
      done         |-> << >>,
      closeTab     |-> << >>,
      goBack       |-> << >>,
      refresh      |-> << >>,
      switchTab    |-> << "index" >>,
      scroll       |-> << "amount" >>,
      clickElement |-> << "selector" >>,
      inputText    |-> << "selector", "value", "clearBeforeInput" >>,
      sendKey      |-> << "selector", "key" >>,
      sleep        |-> << "ms" >> ]

\* this.actions.get(name) !== undefined
ActionsGet(name) == name \in DOMAIN actions

\* ------------------------------------------------------------------- plans

\* The entries a plan of the model may hold ("searchGoogle" is a name the
\* registry does not hold).  args is the JSON object of the
\* plan as the sequence of its <<key, value>> pairs in key order (JSON.parse
\* keeps string keys in the order of the text).
PlanItems ==
    { [name |-> "openNewTab", args |-> << >>],
      [name |-> "done",       args |-> << >>],
      [name |-> "searchGoogle", args |-> << >>] }

Plans == UNION { [1..n -> PlanItems] : n \in 0..MaxPlanLen }

\* Object.values(args): the values in key order.
ObjectValues(args) == [j \in 1..Len(args) |-> args[j][2]]

\* action.callback.bind(this, ...Object.values(args))(): what the callback
\* receives as its positional arguments.
BoundArguments(name, args) == ObjectValues(args)

\* ------------------------------------------------------- results of actions

Hole == [defined |-> FALSE, success |-> FALSE, result |-> "undefined"]

CapturedAlwaysSuccess(ok) == [defined |-> TRUE, success |-> TRUE, result |-> "null"]

\* .then(result => ({success: true, result: result ?? null}))
\* .catch(error => ({success: false, result: error}))
Captured(ok) ==
    IF ok THEN [defined |-> TRUE, success |-> TRUE,  result |-> "null"]
          ELSE [defined |-> TRUE, success |-> FALSE, result |-> "error"]

\* if (!this._running) { ...; break; }
WalkBreaks(run) == ~run

\* One callback invocation, as observed.
Call(slot, item, outcome) ==
    [slot |-> slot, name |-> item.name,
     received |-> BoundArguments(item.name, item.args), outcome |-> outcome]

WalkAllAtOnce(pl, i, res, run, cl) ==
    [pc |-> IF i >= Len(pl) THEN "postSnapshot" ELSE "action", idx |-> i,
     results |-> res, running |-> run,
     calls |-> cl \o [k \in 1..(Len(pl) - i) |-> Call(i + k, pl[i + k], "pending")],
     broke |-> FALSE]

\* The for-loop of step() from the top of an iteration, up to its next await
\* on I/O: i slots are behind, res are the results so far, run is _running.
\* done() runs synchronously when called (it sets _running = false) and its
\* promise is already settled, so the walk goes on in the same turn.
RECURSIVE Walk(_, _, _, _, _)
Walk(pl, i, res, run, cl) ==
    IF i >= Len(pl)
    THEN [pc |-> "postSnapshot", idx |-> i, results |-> res, running |-> run,
          calls |-> cl, broke |-> FALSE]
    ELSE IF WalkBreaks(run)
    THEN [pc |-> "postSnapshot", idx |-> i, results |-> res, running |-> run,
          calls |-> cl, broke |-> TRUE]
    ELSE IF ~ActionsGet(pl[i + 1].name)
    THEN Walk(pl, i + 1, res, run, cl)
    ELSE IF pl[i + 1].name = "done"
    THEN Walk(pl, i + 1, [res EXCEPT ![i + 1] = Captured(TRUE)], FALSE,
              Append(cl, Call(i + 1, pl[i + 1], "ok")))
    ELSE [pc |-> "action", idx |-> i, results |-> res, running |-> run,
          calls |-> Append(cl, Call(i + 1, pl[i + 1], "pending")), broke |-> FALSE]

\* --------------------------------------------------- one turn of a loop

Alive(l) == pc[l] \notin {"idle", "completed"}

\* The values a turn of loop l starts from; an action describes its effect by
\* changing fields of this record, and Commit writes them to the variables.
\* stops/completes: 'stopped'/'completed' dispatches of the turn; newStep: a
\* step() call; request: a completion request; token: a token-limit failure.
Turn0(l) ==
    [pc |-> pc[l], running |-> running, stepCount |-> stepCount[l],
     history |-> history, plan |-> plan[l], idx |-> idx[l],
     results |-> actionResults[l], delay |-> delay[l], calls |-> calls[l],
     broke |-> broke[l], errClass |-> errClass[l],
     stops |-> 0, completes |-> 0, newStep |-> FALSE, request |-> FALSE,
     token |-> FALSE, sent |-> sent]

\* The same for a call made outside every loop.
Outside ==
    [pc |-> "none", running |-> running, stepCount |-> 0, history |-> history,
     plan |-> << >>, idx |-> 0, results |-> << >>, delay |-> 0, calls |-> << >>,
     broke |-> FALSE, errClass |-> "none",
     stops |-> 0, completes |-> 0, newStep |-> FALSE, request |-> FALSE,
     token |-> FALSE, sent |-> sent]

\* The locals of step() are gone once it has returned.
DropLocals(n) ==
    [n EXCEPT !.plan = << >>, !.idx = 0, !.results = << >>, !.delay = 0,
              !.calls = << >>, !.broke = FALSE, !.errClass = "none"]

stopAlsoCompletes(n) ==
    [n EXCEPT !.running = FALSE, !.stops = @ + 1, !.completes = @ + 1]

\* stop(): browser.close() or showDebugPage() (neither awaited; both act on
\* the browser only), then _running = false and dispatchEvent(_stopped).
stop(n) == [n EXCEPT !.running = FALSE, !.stops = @ + 1]

LoopContinuesOffByOne(run, sc) == run /\ sc <= maxSteps

\* while (this._running && stepCount < this.maxSteps)
LoopContinues(run, sc) == run /\ sc < maxSteps

FinallySkipsCount(sc) == sc

\* .finally(() => stepCount++)
Finally(sc) == sc + 1

\* The while loop of start() at its test: either the next step() is called
\* (which runs up to its first await, inside generateMessages), or the loop
\* is left: this.stop(); this.dispatchEvent(this._completed).
LoopTest(n) ==
    IF LoopContinues(n.running, n.stepCount)
    THEN [n EXCEPT !.pc = "snapshot", !.newStep = TRUE]
    ELSE [stop(n) EXCEPT !.pc = "completed", !.completes = @ + 1]

\* step() has resolved: the finally callback, then the loop test.
StepResolved(n) ==
    LoopTest([DropLocals(n) EXCEPT !.stepCount = Finally(n.stepCount)])

\* step() has rejected (generateMessages threw before the promise chain with
\* the catch handler existed): the finally callback runs, the await in
\* start() rethrows and start() itself rejects.
StepRejected(n) ==
    [DropLocals(n) EXCEPT !.stepCount = Finally(n.stepCount), !.pc = "rejected"]

DelayAlwaysDefault(cls) == DefaultDelay

DelayRuntimeAsRateLimit(cls) ==
    IF cls \in {"rate", "runtime"} THEN RateLimitDelay ELSE DefaultDelay

DelayFor(cls) == IF cls = "rate" THEN RateLimitDelay ELSE DefaultDelay

RunningAfterErrorAlwaysHalts(cls, run) == FALSE

\* else if (error.code === "token_limit_exceeded") this._running = false;
RunningAfterError(cls, run) == IF cls = "token" THEN FALSE ELSE run

CatchHandlerNotAwaited(n, cls) ==
    [StepResolved([n EXCEPT !.running = RunningAfterError(cls, n.running),
                            !.token = (cls = "token")])
        EXCEPT !.errClass = cls, !.delay = DelayFor(cls)]

\* The catch handler of step(), lines 340-363, up to await this.sleep(delay).
CatchHandler(n, cls) ==
    [n EXCEPT !.errClass = cls, !.delay = DelayFor(cls),
              !.running = RunningAfterError(cls, n.running),
              !.token = (cls = "token"), !.pc = "sleep"]

EndsWithDone(cl) == cl # << >> /\ cl[Len(cl)].name = "done"

\* Writes the outcome n of a turn of loop l (l = 0: a call that belongs to
\* no loop) to the variables, and keeps the observation variables.
Commit(l, n, who) ==
    /\ running' = n.running
    /\ history' = n.history
    /\ pc' = [m \in Loops |-> IF m = l THEN n.pc ELSE pc[m]]
    /\ stepCount' = [m \in Loops |-> IF m = l THEN n.stepCount ELSE stepCount[m]]
    /\ plan' = [m \in Loops |-> IF m = l THEN n.plan ELSE plan[m]]
    /\ idx' = [m \in Loops |-> IF m = l THEN n.idx ELSE idx[m]]
    /\ actionResults' = [m \in Loops |-> IF m = l THEN n.results ELSE actionResults[m]]
    /\ delay' = [m \in Loops |-> IF m = l THEN n.delay ELSE delay[m]]
    /\ calls' = [m \in Loops |-> IF m = l THEN n.calls ELSE calls[m]]
    /\ broke' = [m \in Loops |-> IF m = l THEN n.broke ELSE broke[m]]
    /\ errClass' = [m \in Loops |-> IF m = l THEN n.errClass ELSE errClass[m]]
    /\ stepsRun' = [m \in Loops |->
                      IF m = l /\ n.newStep THEN stepsRun[m] + 1 ELSE stepsRun[m]]
    /\ stoppedSeen' = [m \in Loops |->
                      IF m = l \/ Alive(m) THEN stoppedSeen[m] + n.stops
                                           ELSE stoppedSeen[m]]
    /\ completedSeen' = [m \in Loops |->
                      IF m = l \/ Alive(m) THEN completedSeen[m] + n.completes
                                           ELSE completedSeen[m]]
    /\ cancelled' = [m \in Loops |->
                      cancelled[m] \/
                      (running /\ ~n.running /\
                       IF m = l THEN EndsWithDone(n.calls) ELSE pc[m] = "action")]
    /\ tokenLimitSeen' = (tokenLimitSeen \/ n.token)
    /\ requestsSinceToken' =
          IF tokenLimitSeen /\ n.request THEN requestsSinceToken + 1
                                         ELSE requestsSinceToken
    /\ stopsSinceToken' =
          IF tokenLimitSeen THEN stopsSinceToken + n.stops ELSE stopsSinceToken
    /\ extStops' = IF who = "stop" THEN extStops + 1 ELSE extStops
    /\ lastCall' = who
    /\ sent' = n.sent
    /\ UNCHANGED << maxSteps, invocation, browser, registration >>

\* ------------------------------------------------------- composed messages

createHistoryMessageZeroBased(index, h) == [number |-> index, record |-> h]

\* createHistoryMessage(index, h): "# History Record #${index + 1}" followed
\* by the fields of the record.
createHistoryMessage(index, h) == [number |-> index + 1, record |-> h]

\* this.history.map((h, i) => createHistoryMessage(i, h)), i counting from 0.
HistoryMessages(h) == [i \in 1..Len(h) |-> createHistoryMessage(i - 1, h[i])]

\* ------------------------------------------------------------------- Init

\* The class has been defined: every @Agent.DefineAction decorator has put
\* its method into Agent.pendingActions; no Agent has been constructed.
ClassDefined ==
    [pendingActions |-> DOMAIN actions, instances |-> << >>,
     got |-> [agent |-> 0, name |-> "none", found |-> FALSE]]

\* No operation on the tabs performed yet.
NoOperation ==
    [tabs |-> << >>, op |-> "none", outcome |-> "none", success |-> FALSE,
     page |-> 0, currentTabIndex |-> 0, rendered |-> 0, url |-> "",
     title |-> "", content |-> ""]

NoLoops(v) == [l \in Loops |-> v]

Init ==
    /\ running = FALSE
    /\ maxSteps \in 0..MaxStepsBound
    /\ history = << >>
    /\ pc = NoLoops("idle")
    /\ stepCount = NoLoops(0)
    /\ plan = NoLoops(<< >>)
    /\ idx = NoLoops(0)
    /\ actionResults = NoLoops(<< >>)
    /\ delay = NoLoops(0)
    /\ calls = NoLoops(<< >>)
    /\ broke = NoLoops(FALSE)
    /\ errClass = NoLoops("none")
    /\ stepsRun = NoLoops(0)
    /\ stoppedSeen = NoLoops(0)
    /\ completedSeen = NoLoops(0)
    /\ cancelled = NoLoops(FALSE)
    /\ tokenLimitSeen = FALSE
    /\ requestsSinceToken = 0
    /\ stopsSinceToken = 0
    /\ extStops = 0
    /\ lastCall = "none"
    /\ invocation = [name |-> "none", args |-> << >>, received |-> << >>]
    /\ sent = << >>
    /\ browser = NoOperation
    /\ registration = ClassDefined

\* ---------------------------------------------------------------- actions

\* The next start() that gets past its guard runs as the lowest unused loop.
NextLoop == CHOOSE l \in Loops : pc[l] = "idle" /\ \A m \in Loops : pc[m] = "idle" => l <= m

StartNeverReturnsEarly(run) == FALSE

\* if (this._running) return;
StartReturnsEarly(run) == run

\* start(): returns at once while _running is true; otherwise _running =
\* true, stepCount = 0 and the loop up to the first await of its first step()
\* (or, with maxSteps = 0, through stop() and the 'completed' dispatch).
Start ==
    IF StartReturnsEarly(running)
    THEN /\ lastCall' = "start"
         /\ UNCHANGED << running, maxSteps, history, pc, stepCount, plan, idx,
                         actionResults, delay, calls, broke, errClass, stepsRun,
                         stoppedSeen, completedSeen, cancelled, tokenLimitSeen,
                         requestsSinceToken, stopsSinceToken, extStops,
                         invocation, sent, browser, registration >>
    ELSE /\ \E l \in Loops : pc[l] = "idle"
         /\ Commit(NextLoop,
                   LoopTest([Turn0(NextLoop) EXCEPT !.running = TRUE,
                                                    !.stepCount = 0]),
                   "start")

\* stop() called by an external caller, at any time.
Stop ==
    /\ extStops < MaxExtStops
    /\ Commit(0, stop(Outside), "stop")

\* generateMessages() resolved (its snapshot taken, the messages composed
\* from the history as it is now): the completion request is issued.
SnapshotOk(l) ==
    /\ pc[l] = "snapshot"
    /\ Commit(l, [Turn0(l) EXCEPT !.pc = "request", !.request = TRUE,
                                  !.sent = HistoryMessages(history)], "loop")

\* generateMessages() threw (browser.pages(), waitForSelector, title() or
\* content() rejected): step() rejects outside its catch handler.
SnapshotFail(l) ==
    /\ pc[l] = "snapshot"
    /\ Commit(l, StepRejected(Turn0(l)), "loop")

\* The walk of a step as a turn outcome.
Walked(n, w) ==
    [n EXCEPT !.pc = w.pc, !.idx = w.idx, !.results = w.results,
              !.running = w.running, !.calls = w.calls, !.broke = w.broke]

\* The completion resolved and its text parsed as JSON: the plan is walked
\* from its first action.
RequestPlan(l) ==
    /\ pc[l] = "request"
    /\ \E pl \in Plans :
          Commit(l,
                 Walked([Turn0(l) EXCEPT !.plan = pl],
                        Walk(pl, 0, [j \in 1..Len(pl) |-> Hole], running, << >>)),
                 "loop")

\* The completion resolved and JSON.parse threw: the then-handler returns.
RequestParseFail(l) ==
    /\ pc[l] = "request"
    /\ Commit(l, StepResolved(Turn0(l)), "loop")

\* The completion request rejected: APIError with code rate_limit_exceeded
\* ("rate"), with code token_limit_exceeded ("token"), or anything else.
RequestError(l) ==
    /\ pc[l] = "request"
    /\ \E cls \in {"rate", "token", "other"} :
          Commit(l, CatchHandler(Turn0(l), cls), "loop")

\* The callback awaited at line 311 settled: its result is stored at
\* actionResults[i], i++, and the walk goes on.
Settle(cl, ok) ==
    [cl EXCEPT ![Len(cl)].outcome = IF ok THEN "ok" ELSE "fail"]

ActionResolve(l) ==
    /\ pc[l] = "action"
    /\ \E ok \in BOOLEAN :
          Commit(l,
                 Walked(Turn0(l),
                        Walk(plan[l], idx[l] + 1,
                             [actionResults[l] EXCEPT ![idx[l] + 1] = Captured(ok)],
                             running, Settle(calls[l], ok))),
                 "loop")

RecordNeverThrows(pl, res) == FALSE

\* response.actions.map(({name, args}, index) => ({name, args,
\*   success: actionResults[index].success, result: actionResults[index].result}))
\* throws a TypeError where actionResults[index] is undefined.
RecordThrows(pl, res) == \E j \in 1..Len(pl) : ~res[j].defined
HistoryRecord(pl, res) ==
    [actions |-> [j \in 1..Len(pl) |->
                    [name |-> pl[j].name, args |-> pl[j].args,
                     success |-> res[j].success, result |-> res[j].result]]]

\* The post-action getCurrentBrowserState() resolved: the record is built and
\* pushed, or building it throws into the catch handler.
PostSnapshotOk(l) ==
    /\ pc[l] = "postSnapshot"
    /\ Commit(l,
              IF RecordThrows(plan[l], actionResults[l])
              THEN CatchHandler(DropLocals(Turn0(l)), "runtime")
              ELSE StepResolved([Turn0(l) EXCEPT !.history =
                       Append(history, HistoryRecord(plan[l], actionResults[l]))]),
              "loop")

\* The post-action getCurrentBrowserState() threw: caught by the handler.
PostSnapshotFail(l) ==
    /\ pc[l] = "postSnapshot"
    /\ Commit(l, CatchHandler(DropLocals(Turn0(l)), "runtime"), "loop")

\* await this.sleep(delay) resolved: the catch handler returns.
SleepDone(l) ==
    /\ pc[l] = "sleep"
    /\ Commit(l, StepResolved(Turn0(l)), "loop")

LoopStep(l) ==
    \/ SnapshotOk(l)
    \/ SnapshotFail(l)
    \/ RequestPlan(l)
    \/ RequestParseFail(l)
    \/ RequestError(l)
    \/ ActionResolve(l)
    \/ PostSnapshotOk(l)
    \/ PostSnapshotFail(l)
    \/ SleepDone(l)

\* start() called on an agent that was never started, or while it is running.
SoloStart ==
    /\ (\A l \in Loops : pc[l] = "idle") \/ running
    /\ Start

\* One agent whose start() begins one run; start() may be called again while
\* running is true, and stop() at any time.
Next ==
    \/ SoloStart
    \/ Stop
    \/ LoopStep(1)

Spec == Init /\ [][Next]_vars

\* The same agent when start() is also called again after running has become
\* false, during or after an earlier run (up to MaxLoops runs, each of one
\* step: maxSteps = 1).
RestartInit == Init /\ maxSteps = 1

RestartNext ==
    \/ Start
    \/ Stop
    \/ \E l \in Loops : LoopStep(l)

RestartSpec == RestartInit /\ [][RestartNext]_vars

\* ------------------------------------------- argument binding on its own

\* The permutations of 1..n.
KeyOrders(n) ==
    { f \in [1..n -> 1..n] : \A i, j \in 1..n : f[i] = f[j] => i = j }

\* The args objects a plan may carry for action `name`: each declared
\* parameter once, the keys in any order, the values in 1..MaxArgValue.
ArgObjects(name) ==
    { [j \in 1..Len(actions[name]) |-> << actions[name][f[j]], v[f[j]] >>] :
        f \in KeyOrders(Len(actions[name])),
        v \in [1..Len(actions[name]) -> 1..MaxArgValue] }

\* Lines 311-312 for one resolved plan entry: the callback is called with
\* the bound arguments.
Invoke ==
    /\ \E name \in DOMAIN actions : \E args \in ArgObjects(name) :
          invocation' = [name |-> name, args |-> args,
                         received |-> BoundArguments(name, args)]
    /\ UNCHANGED << running, maxSteps, history, pc, stepCount, plan, idx,
                    actionResults, delay, calls, broke, errClass, stepsRun,
                    stoppedSeen, completedSeen, cancelled, tokenLimitSeen,
                    requestsSinceToken, stopsSinceToken, extStops, lastCall,
                    sent, browser, registration >>

BindNext == Invoke

BindSpec == Init /\ [][BindNext]_vars

\* ------------------------------------------------ page resolution on its own

\* What a tab does when asked p.waitForSelector("html") and then
\* p.evaluate(() => !document.hidden): it answers visible, answers hidden, or
\* the wait rejects.
TabStatus == {"visible", "hidden", "unresponsive"}

\* browser.pages(): the tabs in enumeration order.
TabLists == UNION { [1..n -> TabStatus] : n \in 0..MaxTabs }

\* The visibility getCurrentPage() settles on for a tab: a rejected wait is
\* caught and counts as not visible.
VisResult(t) == t = "visible"

\* getCurrentPage(): pages.filter((_v, index) => vis_results[index])[0] ?? null.
\* The position (from 1) of the first visible tab; 0 stands for null.
getCurrentPage(tabs) ==
    IF \E k \in 1..Len(tabs) : VisResult(tabs[k])
    THEN CHOOSE k \in 1..Len(tabs) :
            VisResult(tabs[k]) /\ \A j \in 1..(k - 1) : ~VisResult(tabs[j])
    ELSE 0

\* pages.findIndex(async (p) => ...): the predicate returns a promise, which
\* is truthy whatever it later settles to, so the first tab matches; -1 on an
\* empty list.  The index counts from 0.
FindIndexOfAsyncPredicate(tabs) == IF Len(tabs) > 0 THEN 0 ELSE -1

\* createHistoryMessage: ${currentTabIndex + 1}
RenderTabIndex(i) == i + 1

\* getCurrentBrowserState(): url, title and content of the current page with
\* "" as fallback, currentTabIndex, and the {url, title} of every tab, whose
\* waitForSelector("html") has no fallback.
getCurrentBrowserState(tabs) ==
    LET page == getCurrentPage(tabs) IN
    IF \E k \in 1..Len(tabs) : tabs[k] = "unresponsive"
    THEN [NoOperation EXCEPT !.tabs = tabs, !.op = "getCurrentBrowserState",
                             !.outcome = "raises", !.page = page]
    ELSE [tabs |-> tabs, op |-> "getCurrentBrowserState", outcome |-> "ok",
          success |-> TRUE, page |-> page,
          currentTabIndex |-> FindIndexOfAsyncPredicate(tabs),
          rendered |-> RenderTabIndex(FindIndexOfAsyncPredicate(tabs)),
          url |-> IF page = 0 THEN "" ELSE "url",
          title |-> IF page = 0 THEN "" ELSE "title",
          content |-> IF page = 0 THEN "" ELSE "content"]

\* The actions that work on the current page.
SingleTabActions ==
    {"goToUrl", "closeTab", "goBack", "refresh", "scroll", "clickElement",
     "inputText", "sendKey"}

\* A single-tab action when getCurrentPage() is null: p?.x() and eh?.x() do
\* nothing (selectElementHandle() gives null), Promise.all of two undefined
\* resolves; inputText throws `Element ${selector} not found`.
NoPageOutcome(name) == IF name = "inputText" THEN "raises" ELSE "noop"

\* The ways a single-tab action can end: with a page the browser call
\* resolves or rejects.
Outcomes(name, page) ==
    IF page = 0 THEN {NoPageOutcome(name)} ELSE {"ok", "raises"}

\* getCurrentBrowserState() called on some tab list.
TakeSnapshot ==
    /\ \E tabs \in TabLists : browser' = getCurrentBrowserState(tabs)
    /\ UNCHANGED << running, maxSteps, history, pc, stepCount, plan, idx,
                    actionResults, delay, calls, broke, errClass, stepsRun,
                    stoppedSeen, completedSeen, cancelled, tokenLimitSeen,
                    requestsSinceToken, stopsSinceToken, extStops, lastCall,
                    invocation, sent, registration >>

\* A single-tab action invoked from a plan on some tab list, and its result
\* as step() captures it.
CallSingleTabAction ==
    /\ \E tabs \in TabLists : \E name \in SingleTabActions :
       \E out \in Outcomes(name, getCurrentPage(tabs)) :
          browser' = [NoOperation EXCEPT
                        !.tabs = tabs, !.op = name, !.outcome = out,
                        !.page = getCurrentPage(tabs),
                        !.success = Captured(out # "raises").success]
    /\ UNCHANGED << running, maxSteps, history, pc, stepCount, plan, idx,
                    actionResults, delay, calls, broke, errClass, stepsRun,
                    stoppedSeen, completedSeen, cancelled, tokenLimitSeen,
                    requestsSinceToken, stopsSinceToken, extStops, lastCall,
                    invocation, sent, registration >>

TabNext ==
    \/ CallSingleTabAction
    \/ TakeSnapshot

TabSpec == Init /\ [][TabNext]_vars

\* --------------------------------------------------- registration on its own

DrainKeepsTable(pend, reg) == [pendingActions |-> pend, registry |-> reg \cup pend]

\* for (const [name, action] of Agent.pendingActions) {
\*     this.actions.set(name, action); Agent.pendingActions.delete(name); }
\* (a Map may be deleted from while it is iterated; every entry is visited)
RECURSIVE Drain(_, _)
Drain(pend, reg) ==
    IF pend = {}
    THEN [pendingActions |-> pend, registry |-> reg]
    ELSE LET name == CHOOSE x \in pend : TRUE IN
         Drain(pend \ {name}, reg \cup {name})

\* The names step() may look up: those of the plans and those declared.
LookupNames == {item.name : item \in PlanItems} \cup DOMAIN actions

Untouched ==
    UNCHANGED << running, maxSteps, history, pc, stepCount, plan, idx,
                 actionResults, delay, calls, broke, errClass, stepsRun,
                 stoppedSeen, completedSeen, cancelled, tokenLimitSeen,
                 requestsSinceToken, stopsSinceToken, extStops, lastCall,
                 invocation, sent, browser >>

\* new Agent(...): this.actions starts as an empty Map and takes what the
\* pending table holds.
Construct ==
    /\ Len(registration.instances) < MaxAgents
    /\ LET d == Drain(registration.pendingActions, {}) IN
       registration' = [registration EXCEPT
                          !.pendingActions = d.pendingActions,
                          !.instances = Append(@, d.registry)]
    /\ Untouched

\* this.actions.get(name) of step(), on one of the agents constructed: the
\* only use of an instance's registry besides listing it in the system
\* message; both only read.
Get ==
    /\ \E a \in 1..Len(registration.instances) : \E name \in LookupNames :
          registration' = [registration EXCEPT
                             !.got = [agent |-> a, name |-> name,
                                      found |-> name \in registration.instances[a]]]
    /\ Untouched

RegistryNext ==
    \/ Construct
    \/ Get

RegistrySpec == Init /\ [][RegistryNext]_vars

\* ------------------------------------------------------------------ claims

AllResolve(pl) == \A j \in 1..Len(pl) : ActionsGet(pl[j].name)
NoneSetsRunningFalse(pl) == \A j \in 1..Len(pl) : pl[j].name # "done"

\* Every action of loop l's plan was invoked, once, in plan order.
InvokedAll(l) ==
    /\ Len(calls[l]) = Len(plan[l])
    /\ \A j \in 1..Len(plan[l]) :
          calls[l][j].slot = j /\ calls[l][j].name = plan[l][j].name

\* The record step() is about to build holds one entry per action, failed
\* where the callback failed (with the error) and successful elsewhere.
RecordedEach(l) ==
    /\ ~RecordThrows(plan[l], actionResults[l])
    /\ Len(HistoryRecord(plan[l], actionResults[l]).actions) = Len(plan[l])
    /\ \A j \in 1..Len(plan[l]) :
          LET e == HistoryRecord(plan[l], actionResults[l]).actions[j] IN
          /\ e.name = plan[l][j].name
          /\ calls[l][j].outcome = "fail" => ~e.success /\ e.result = "error"
          /\ calls[l][j].outcome = "ok" => e.success

\* A record enters the history only as the record built from the plan and
\* the results of the step that ends.
AppendsTheStepsRecord ==
    history' # history =>
        \E l \in Loops :
            /\ pc[l] = "postSnapshot"
            /\ history' = Append(history, HistoryRecord(plan[l], actionResults[l]))

SomeCallFailed(l) == \E j \in 1..Len(calls[l]) : calls[l][j].outcome = "fail"

\* C1 as claimed: at the end of the walk of a plan whose names all resolve
\* and that holds no 'done', in which a callback failed, every action was
\* invoked in plan order and the step's record holds one entry per action
\* with the success flag and error of each.
C1_Orig ==
    \A l \in Loops :
        (pc[l] = "postSnapshot" /\ AllResolve(plan[l])
            /\ NoneSetsRunningFalse(plan[l]) /\ SomeCallFailed(l))
        => (InvokedAll(l) /\ RecordedEach(l))

C1_WalkNotBroken ==
    \A l \in Loops :
        (pc[l] = "postSnapshot" /\ AllResolve(plan[l])
            /\ NoneSetsRunningFalse(plan[l]) /\ ~broke[l])
        => (InvokedAll(l) /\ RecordedEach(l))

\* C1 amended: the same (whether or not a callback failed), for a step in
\* which running is still true at each of the walk's checks (no stop() call
\* has set it to false); and the record appended is the one built from those
\* results.
C1_FailureIsolation == [](C1_WalkNotBroken) /\ [][AppendsTheStepsRecord]_vars

\* A record of two entries whose first action failed and whose second, invoked
\* after it, succeeded.
C1_Witness ==
    \E k \in 1..Len(history) :
        /\ Len(history[k].actions) = 2
        /\ ~history[k].actions[1].success
        /\ history[k].actions[1].result = "error"
        /\ history[k].actions[2].success

\* The value the plan's args give to declared parameter j of action `name`.
DeclaredOrder(name, args) ==
    [j \in 1..Len(actions[name]) |->
        (CHOOSE pr \in {args[k] : k \in 1..Len(args)} : pr[1] = actions[name][j])[2]]

\* C2 as claimed: the callback receives its arguments in the declared
\* parameter order, whatever the key order of the plan's args.
C2_Orig ==
    invocation.name # "none" =>
        invocation.received = DeclaredOrder(invocation.name, invocation.args)

\* C3: a start() runs step() at most maxSteps times (each step() issues at
\* most one completion request), whatever the steps' outcomes; none with
\* maxSteps = 0.
C3_AtMostMaxSteps ==
    \A l \in Loops : stepsRun[l] <= maxSteps /\ (maxSteps = 0 => stepsRun[l] = 0)

\* A run that ended because maxSteps was reached, running never having
\* become false during a step.
C3_Witness ==
    /\ pc[1] = "completed"
    /\ maxSteps = 2
    /\ stepsRun[1] = maxSteps
    /\ ~cancelled[1]
    /\ extStops = 0

\* C4 as claimed: once a completion request has failed with the token
\* limit, running is false for good, no further completion request is
\* issued, and stop() executes exactly once afterwards.
C4_Orig ==
    tokenLimitSeen =>
        /\ ~running
        /\ requestsSinceToken = 0
        /\ stopsSinceToken <= 1
        /\ (\A l \in Loops : pc[l] \in {"idle", "completed"}) => stopsSinceToken = 1

\* C5 as claimed: once running has become false during a step of a loop, the
\* loop invokes no later action of the plan (the walk that calls 'done'
\* invokes nothing after it; a stop() leaves the invocation in flight to
\* resolve) and begins no further step.
C5_Step ==
    \A l \in Loops :
        /\ cancelled[l] =>
              /\ Len(calls'[l]) <= Len(calls[l])
              /\ stepsRun'[l] = stepsRun[l]
        /\ (cancelled'[l] /\ ~cancelled[l]) =>
              \/ calls'[l] = calls[l] /\ pc'[l] = pc[l]
              \/ EndsWithDone(calls'[l])

C5_Orig == [][C5_Step]_vars

\* C6 as claimed: in a finished run 'stopped' has fired exactly once and
\* 'completed' exactly once.
C6_Orig ==
    \A l \in Loops :
        pc[l] = "completed" => stoppedSeen[l] = 1 /\ completedSeen[l] = 1

C7_Precedes ==
    \A l \in Loops : completedSeen[l] > 0 => stoppedSeen[l] > 0

C7_Step ==
    /\ lastCall' = "stop" => completedSeen' = completedSeen
    /\ completedSeen' # completedSeen =>
          \E l \in Loops :
              /\ pc[l] # "completed" /\ pc'[l] = "completed"
              /\ stoppedSeen'[l] = stoppedSeen[l] + 1
              /\ completedSeen'[l] = completedSeen[l] + 1

\* C7: 'completed' is dispatched only in the turn in which a start() leaves
\* its loop and has run its terminating stop(), so a 'stopped' of the same
\* run precedes every 'completed'; a stop() call from outside dispatches no
\* 'completed'.
C7_CompletedOnlyAfterStop == [](C7_Precedes) /\ [][C7_Step]_vars

\* A finished run during which an external stop() was called: two 'stopped',
\* one 'completed'.
C7_Witness ==
    /\ pc[1] = "completed"
    /\ extStops = 1
    /\ stoppedSeen[1] = 2
    /\ completedSeen[1] = 1

\* C8 as claimed: every started run goes on until its loop has left, called
\* stop() and dispatched 'completed': a start() that has not completed
\* always has a next turn to take (each awaited operation returns).
C8_Orig ==
    \A l \in Loops : pc[l] \in {"idle", "completed"} \/ ENABLED LoopStep(l)

\* C9: a start() call made while running is true changes nothing of the
\* agent: not running, the loop's position and step count, the history, the
\* number of loops, stop() calls or notifications.
C9_StartWhileRunningIsNoOp ==
    [][(running /\ lastCall' = "start") =>
          UNCHANGED << running, maxSteps, history, pc, stepCount, plan, idx,
                       actionResults, delay, stepsRun, stoppedSeen,
                       completedSeen, extStops, stopsSinceToken >>]_vars

\* start() was called while the loop was awaiting an action callback.
C9_Witness ==
    lastCall = "start" /\ running /\ pc[1] = "action" /\ stepCount[1] = 1

C10_Sleeping ==
    \A l \in Loops :
        errClass[l] = "rate" => pc[l] = "sleep" /\ delay[l] = 60000

C10_Step ==
    \A l \in Loops :
        /\ (errClass'[l] = "rate" /\ errClass[l] # "rate") =>
              running' = running /\ history' = history
        /\ (errClass[l] = "rate" /\ errClass'[l] # "rate") =>
              /\ history' = history
              /\ pc'[l] \in {"snapshot", "completed"}

\* C10: the handler of a rate-limit failure leaves running and the history
\* as they are and awaits one sleep of 60000 ms; when that sleep ends the
\* step returns to the loop (its next iteration or its exit) without another
\* delay and without a record.
C10_RateLimitBackoff == [](C10_Sleeping) /\ [][C10_Step]_vars

\* A loop asleep after a rate-limit failure, running still true.
C10_Witness ==
    \E l \in Loops : errClass[l] = "rate" /\ pc[l] = "sleep" /\ running

\* The step of loop l leaves its post-action snapshot in this turn.
LeavesPostSnapshot(l) == pc[l] = "postSnapshot" /\ pc'[l] # "postSnapshot"

\* ... and it does so through the failure handler although the record could
\* be built: the post-action snapshot itself failed.
PostSnapshotFailed(l) ==
    errClass'[l] = "runtime" /\ ~RecordThrows(plan[l], actionResults[l])

C11_Step ==
    \A l \in Loops :
        (LeavesPostSnapshot(l) /\ ~PostSnapshotFailed(l)) =>
            /\ Len(history') = Len(history) + 1
            /\ Len(history'[Len(history')].actions) = Len(plan[l])

\* C11 as claimed: every step whose request succeeded and whose response
\* parsed as a plan (and whose post-action snapshot was taken) appends exactly
\* one record, with one entry per action of the plan, whatever names the plan
\* lists and whatever the outcome of its actions.
C11_Orig == [][C11_Step]_vars

\* A loop inside a step: between the call of step() and its return.
InStep(l) == pc[l] \in {"snapshot", "request", "action", "postSnapshot", "sleep"}

\* C12 as claimed: at most one step is in progress at any time, so two
\* completion requests or two action invocations are never in flight at once,
\* under every interleaving of start(), stop() and the suspension points.
C12_Orig == Cardinality({l \in Loops : InStep(l)}) <= 1

C13_Ordered ==
    \A l \in Loops :
        /\ Len(calls[l]) <= Len(plan[l])
        /\ \A j \in 1..Len(calls[l]) :
              /\ calls[l][j].slot \in 1..Len(plan[l])
              /\ calls[l][j].name = plan[l][calls[l][j].slot].name
              /\ j < Len(calls[l]) =>
                    /\ calls[l][j].slot < calls[l][j + 1].slot
                    /\ calls[l][j].outcome \in {"ok", "fail"}
              /\ calls[l][j].outcome = "pending" => pc[l] = "action"

C13_Step ==
    \A l \in Loops :
        Len(calls'[l]) > Len(calls[l]) =>
            /\ \A j \in 1..Len(calls[l]) :
                  /\ calls'[l][j].slot = calls[l][j].slot
                  /\ calls'[l][j].outcome \in {"ok", "fail"}
            /\ \A j \in (Len(calls[l]) + 1)..Len(calls'[l]) :
                  calls'[l][j].slot > idx[l]

\* C13: within one step the callbacks are invoked in plan order, each for the
\* plan entry of its slot, no slot twice, and an invocation begins only when
\* every earlier invocation of the step has resolved (succeeded or failed).
C13_OneAtATimeInPlanOrder == [](C13_Ordered) /\ [][C13_Step]_vars

\* The second action of a plan in flight after the first one failed.
C13_Witness ==
    /\ pc[1] = "action"
    /\ Len(calls[1]) = 2
    /\ calls[1][1].slot = 1 /\ calls[1][1].outcome = "fail"
    /\ calls[1][2].slot = 2 /\ calls[1][2].outcome = "pending"

C14_Records ==
    \A k \in 1..Len(history) : \A j \in 1..Len(history[k].actions) :
        /\ history[k].actions[j].success \in BOOLEAN
        /\ history[k].actions[j].result \in {"null", "error"}

C14_Step ==
    history' # history =>
        \E l \in Loops :
            /\ pc[l] = "postSnapshot"
            /\ Len(history') = Len(history) + 1
            /\ Len(history'[Len(history')].actions) = Len(plan[l])
            /\ \A j \in 1..Len(plan[l]) :
                  history'[Len(history')].actions[j].name = plan[l][j].name

\* C14: every record in the history holds as many entries as the plan of its
\* step has actions, entry j for action j, and every entry has a success flag
\* and a defined result (null or the value on success, the error on failure).
C14_RecordAlignedWithPlan == [](C14_Records) /\ [][C14_Step]_vars

\* The record of a step whose plan ended with 'done': running became false
\* in the step and the record still holds both entries.
C14_Witness ==
    /\ ~running
    /\ \E k \in 1..Len(history) :
          /\ Len(history[k].actions) = 2
          /\ history[k].actions[2].name = "done"
          /\ history[k].actions[2].success

RequestFailure == {"rate", "token", "other"}

\* The step of loop l returns to the loop in this turn.
StepReturns(l) ==
    /\ pc[l] \in {"request", "postSnapshot", "sleep"}
    /\ pc'[l] \in {"snapshot", "completed"}

C15_Step ==
    \A l \in Loops :
        /\ (pc[l] = "request" /\ errClass'[l] \in RequestFailure) =>
              /\ history' = history
              /\ calls'[l] = << >>
              /\ pc'[l] = "sleep"
        /\ (errClass[l] \in RequestFailure /\ pc'[l] # pc[l]) =>
              /\ history' = history
              /\ calls'[l] = << >>
              /\ StepReturns(l)
              /\ stepCount'[l] = stepCount[l] + 1
        /\ (pc[l] = "request" /\ StepReturns(l)) =>
              /\ history' = history
              /\ calls'[l] = << >>
              /\ stepCount'[l] = stepCount[l] + 1

\* C15: a step whose completion request fails (rate limit, token limit or
\* other), or whose response does not parse, invokes no action and leaves
\* the history as it is, and when it returns the loop's step count has gone
\* up by one.
C15_FailedStepCountsWithoutRecord == [][C15_Step]_vars

\* The second step of a run in its failure handler, the first one having
\* been counted without a record.
C15_Witness ==
    /\ pc[1] = "sleep" /\ errClass[1] = "other"
    /\ stepCount[1] = 1 /\ stepsRun[1] = 2
    /\ history = << >>

\* The turn was taken by a loop that did not leave its while loop in it
\* (leaving runs stop()), and no 'done' callback ran in it.
C16_NoDoneInTurn ==
    /\ lastCall' = "loop"
    /\ \A l \in Loops : pc'[l] = "completed" => pc[l] = "completed"
    /\ \A l \in Loops : 
          NoneSetsRunningFalse(plan'[l]) \/ (plan'[l] = plan[l] /\ calls'[l] = calls[l])

C16_Step ==
    /\ \A l \in Loops :
          /\ (errClass[l] = "none" /\ errClass'[l] = "token") => ~running'
          /\ (errClass[l] = "none" /\ errClass'[l] \in {"rate", "other", "runtime"}) =>
                running' = running
          /\ (StepReturns(l) /\ running /\ stepCount'[l] < maxSteps) =>
                pc'[l] = "snapshot" /\ running'
    /\ (C16_NoDoneInTurn /\ \A l \in Loops : errClass'[l] # "token") =>
          running' = running

\* C16: a turn of the loop in which no 'done' callback runs, no token limit
\* is met and the while loop is not left leaves running as it is (a parse failure, an unresolved
\* name, a failing callback, a rate limit or another error do not touch it),
\* a token limit sets it to false, and a step that returns with running true
\* and the step count below maxSteps is followed by the next step.
C16_OnlyTokenLimitHalts == [][C16_Step]_vars

\* The loop at its second step, still running, after a first step that
\* invoked a failing callback and appended its record.
C16_Witness ==
    /\ pc[1] = "snapshot" /\ running /\ stepCount[1] = 1
    /\ Len(history) = 1
    /\ \E j \in 1..Len(history[1].actions) : ~history[1].actions[j].success

C17_Sleeping ==
    \A l \in Loops :
        errClass[l] # "none" =>
            /\ pc[l] = "sleep"
            /\ delay[l] = IF errClass[l] = "rate" THEN 60000 ELSE 1000

C17_Step ==
    \A l \in Loops :
        pc[l] = "sleep" =>
            /\ pc'[l] # "request"
            /\ stepsRun'[l] # stepsRun[l] => errClass'[l] = "none"
            /\ pc'[l] = "completed" => errClass'[l] = "none"
            /\ pc'[l] = "sleep" => delay'[l] = delay[l] /\ errClass'[l] = errClass[l]

\* C17: from the failure of a request until its delay has ended the loop
\* stays in the handler's sleep, of 60000 ms for a rate limit and of 1000 ms
\* for the token limit and for every other error; the next step (and its
\* request) and the loop's terminating stop() come only with the end of
\* that sleep.
C17_DelayAwaited == [](C17_Sleeping) /\ [][C17_Step]_vars

\* The loop asleep for 1000 ms after a token-limit failure, running false.
C17_Witness ==
    pc[1] = "sleep" /\ errClass[1] = "token" /\ delay[1] = 1000 /\ ~running

C18_AppendOnly ==
    history' # history =>
        /\ Len(history') = Len(history) + 1
        /\ SubSeq(history', 1, Len(history)) = history
        /\ \E l \in Loops : pc[l] = "postSnapshot" /\ StepReturns(l)

C18_Replayed ==
    \A l \in Loops :
        (pc[l] = "snapshot" /\ pc'[l] = "request") =>
            /\ history' = history
            /\ Len(sent') = Len(history)
            /\ \A i \in 1..Len(history) :
                  sent'[i].number = i /\ sent'[i].record = history[i]

C19_Orig ==
    (browser.op = "getCurrentBrowserState" /\ browser.outcome = "ok"
        /\ browser.page # 0)
    => /\ browser.currentTabIndex = browser.page - 1
       /\ browser.rendered = browser.page

\* C20 as claimed: with no visible tab there is no current page, the
\* snapshot has empty url, title and content, and every single-tab action
\* ends without raising and is recorded as a success.
C20_Orig ==
    (browser.op # "none" /\ browser.page = 0) =>
        /\ browser.outcome # "raises"
        /\ browser.success
        /\ browser.url = "" /\ browser.title = "" /\ browser.content = ""

C21_Sleeping ==
    \A l \in Loops :
        errClass[l] = "runtime" => pc[l] = "sleep" /\ delay[l] = 1000

C21_Step ==
    \A l \in Loops :
        /\ (errClass[l] = "none" /\ errClass'[l] = "runtime") =>
              /\ pc[l] = "postSnapshot"
              /\ history' = history
              /\ running' = running
        /\ (errClass[l] = "runtime" /\ pc'[l] # pc[l]) =>
              /\ history' = history
              /\ StepReturns(l)
              /\ stepCount'[l] = stepCount[l] + 1
        /\ (pc[l] = "postSnapshot" /\ RecordThrows(plan[l], actionResults[l])
                /\ pc'[l] # pc[l]) =>
              errClass'[l] = "runtime"

\* C21: an error raised after the plan was parsed (the post-action snapshot
\* fails, or building the record meets a missing result slot) puts the step
\* into the failure handler as a non-API error: nothing is appended to the
\* history, then or when the step returns, running stays as it was, and one
\* sleep of 1000 ms is awaited before the step returns and is counted.
C21_LateErrorHandledAsOther == [](C21_Sleeping) /\ [][C21_Step]_vars

\* The second step asleep in the handler after such an error, running still
\* true, the history holding the record of the first step only.
C21_Witness ==
    /\ pc[1] = "sleep" /\ errClass[1] = "runtime" /\ delay[1] = 1000
    /\ running
    /\ stepCount[1] = 1 /\ Len(history) = 1

C22_Table ==
    /\ registration.instances = << >> =>
          registration.pendingActions = DOMAIN actions
    /\ registration.instances # << >> =>
          /\ registration.pendingActions = {}
          /\ registration.instances[1] = DOMAIN actions
          /\ "done" \in registration.instances[1]
          /\ \A k \in 2..Len(registration.instances) :
                registration.instances[k] = {}

C22_Step ==
    /\ Len(registration'.instances) >= Len(registration.instances)
    /\ \A k \in 1..Len(registration.instances) :
          registration'.instances[k] = registration.instances[k]

\* C22: before any construction the pending table holds every declared
\* action; after one it is empty, the first Agent constructed holds every
\* declared action ('done' included) and every Agent constructed later holds
\* none; nothing that runs afterwards changes the registry of an Agent
\* already constructed.
C22_RegistryMovedOnce == [](C22_Table) /\ [][C22_Step]_vars

\* The second Agent constructed looked up 'done' and did not find it.
C22_Witness ==
    /\ Len(registration.instances) >= 2
    /\ registration.got = [agent |-> 2, name |-> "done", found |-> FALSE]

====
